---------------------------- MODULE Spec2Model ----------------------------
(***************************************************************************)
(* A model of scripts/lib.py of riscv-dv: the regression test list         *)
(* resolver (process_regression_list), the single command executor         *)
(* (run_cmd) and the parallel command executor (run_parallel_cmd).         *)
(*                                                                         *)
(* Python strings that the code takes apart (the selection `test`, split   *)
(* on commas; an import path, in which '<riscv_dv_root>' is substituted)   *)
(* are sequences: of characters for the selection and the test names, of   *)
(* path tokens for the paths.                                              *)
(***************************************************************************)
EXTENDS Integers, Sequences, FiniteSets, TLC

(***************************************************************************)
(* Bounds of the model.                                                    *)
(***************************************************************************)
\* longest root list document that is enumerated
MaxDocLen == 3
\* longest batch of run_parallel_cmd
MaxCmds == 3
\* the deepest nesting of calls the interpreter allows (sys.getrecursionlimit())
RecursionLimit == 4

(***************************************************************************)
(* Program constants.                                                      *)
(***************************************************************************)
RET_SUCCESS == 0
RET_FAIL == 1
RET_FATAL == -1

\* Python's None; an integer n that may be None instead is <<n>>
None == <<>>

Some(n) == <<n>>

Val(v) == v[1]

(***************************************************************************)
(* Strings.                                                                *)
(***************************************************************************)
sAll == <<"a", "l", "l">>
sX == <<"x">>
sY == <<"y">>
sZ == <<"z">>
Comma == ","

\* a \o "," \o b
Join(a, b) == a \o <<Comma>> \o b

\* positions of the separator in s
SepPositions(s) == {k \in 1..Len(s) : s[k] = Comma}

Min(S) == CHOOSE m \in S : \A n \in S : m <= n

\* str.split(','): the tokens between the commas, empty tokens included
RECURSIVE Split(_)
Split(s) ==
  IF SepPositions(s) = {}
  THEN <<s>>
  ELSE LET k == Min(SepPositions(s))
       IN  <<SubSeq(s, 1, k - 1)>> \o Split(SubSeq(s, k + 1, Len(s)))

\* x in list
InList(x, l) == \E k \in 1..Len(l) : l[k] = x

(***************************************************************************)
(* Paths and list documents.                                               *)
(***************************************************************************)
Placeholder == "<riscv_dv_root>"

\* re.sub('<riscv_dv_root>', riscv_dv_root, path): every occurrence of the
\* placeholder is replaced by the root
RECURSIVE ReSub(_, _)
ReSub(root, path) ==
  IF path = <<>>
  THEN <<>>
  ELSE (IF Head(path) = Placeholder THEN root ELSE <<Head(path)>>)
       \o ReSub(root, Tail(path))

RootDir == <<"/dv">>
RootPath == <<"/dv", "/root.yaml">>
LeafPath == <<"/dv", "/leaf.yaml">>
MidPath == <<"/dv", "/mid.yaml">>
DeepPath == <<"/dv", "/deep.yaml">>

\* a test node; `description` stands for the metadata the resolver passes
\* through without looking at it
TestNode(name, iters, descr) ==
  [test |-> name, iterations |-> iters, description |-> descr]

ImportNode(path) == [import |-> path]

\* the sub-lists on disk
LeafDoc == <<TestNode(sZ, 1, <<"leaf", 1>>)>>

DeepDoc == <<TestNode(sX, 2, <<"deep", 1>>), TestNode(sY, 0, <<"deep", 2>>)>>

MidDoc ==
  <<TestNode(sY, 2, <<"mid", 1>>),
    ImportNode(<<Placeholder, "/deep.yaml">>),
    TestNode(sZ, -1, <<"mid", 3>>),
    TestNode(sX, 1, <<"mid", 4>>)>>

\* the nodes a root document is made of; the description of a root test
\* node is set from its position (see RootDocs)
RootNodes ==
  {TestNode(n, k, "") : n \in {sX, sY}, k \in {-1, 0, 2}}
  \cup {ImportNode(<<Placeholder, "/leaf.yaml">>),
        ImportNode(<<"/dv", "/mid.yaml">>)}

Tagged(doc) ==
  [k \in 1..Len(doc) |->
     IF "import" \in DOMAIN doc[k]
     THEN doc[k]
     ELSE [doc[k] EXCEPT !.description = <<"root", k>>]]

RootDocs ==
  {Tagged(d) : d \in UNION {[1..n -> RootNodes] : n \in 0..MaxDocLen}}

\* the file system: path -> parsed document
Files(rootDoc) ==
  [p \in {RootPath, LeafPath, MidPath, DeepPath} |->
     CASE p = RootPath -> rootDoc
       [] p = LeafPath -> LeafDoc
       [] p = MidPath  -> MidDoc
       [] p = DeepPath -> DeepDoc]

Selections ==
  {sAll, sX, Join(sX, sY), Join(sY, sX), Join(sAll, sX), sZ}

Overrides == {-1, 0, 3}

VARIABLES
  fs,             \* the list documents on disk
  testlist,       \* process_regression_list: argument testlist of the root call
  test,           \* argument test (the selection)
  iterations,     \* argument iterations (the override)
  riscv_dv_root,  \* argument riscv_dv_root
  matched_list,   \* argument matched_list, the caller's accumulator
  stack,          \* the active calls: <<[testlist, yaml_data, idx]>>, innermost last
  lpc,            \* "start", "run", "done"
  r_cmd,          \* run_cmd: argument cmd
  r_timeout_s,    \* argument timeout_s
  r_exit_on_error,      \* argument exit_on_error
  r_check_return_code,  \* argument check_return_code
  shell_ok,       \* whether /bin/bash can be started
  ps,             \* the Popen object: [state, returncode], or Unbound
  r_output,       \* local output
  retval,         \* the value returned to the caller, NoReturn before that
  rpc,            \* "start", "communicate", "check", "returned", "exited", "raised"
  cmd_list,       \* run_parallel_cmd: argument cmd_list
  timeout_s,      \* argument timeout_s
  exit_on_error,  \* argument exit_on_error
  check_return_code,    \* argument check_return_code
  children,       \* local children, a list of Popen objects
  cmd,            \* loop variable of the launch loop
  i,              \* loop variable of the wait loop (from 0)
  output,         \* local output
  now,            \* time since the batch was launched
  stty,           \* number of os.system("stty sane") calls
  ppc,            \* "launch", "wait", "check", "restore", "done", "exited", "raised"
  log,            \* the logging calls made: <<[level, msg]>>
  exited,         \* the code of sys.exit, None while the process lives
  raised          \* the exception that left the function, None if none

lvars == <<fs, testlist, test, iterations, riscv_dv_root, matched_list, stack, lpc>>

rvars == <<r_cmd, r_timeout_s, r_exit_on_error, r_check_return_code, shell_ok,
           ps, r_output, retval, rpc>>

pvars == <<cmd_list, timeout_s, exit_on_error, check_return_code, children, cmd,
           i, output, now, stty, ppc>>

svars == <<log, exited, raised>>

vars == <<lvars, rvars, pvars, svars>>

\* a local variable that has not been assigned
Unbound == <<"unbound">>

\* no value has been returned
NoReturn == <<"no return">>

\* the executors are not in use
RIdle ==
  /\ r_cmd = None /\ r_timeout_s = 0 /\ r_exit_on_error = 0
  /\ r_check_return_code = FALSE /\ shell_ok = TRUE /\ ps = Unbound
  /\ r_output = Unbound /\ retval = NoReturn /\ rpc = "idle"

PIdle ==
  /\ cmd_list = <<>> /\ timeout_s = 0 /\ exit_on_error = 0
  /\ check_return_code = FALSE /\ children = <<>> /\ cmd = Unbound
  /\ i = 0 /\ output = Unbound /\ now = 0 /\ stty = 0 /\ ppc = "idle"

LIdle ==
  /\ fs = <<>> /\ testlist = None /\ test = <<>> /\ iterations = 0
  /\ riscv_dv_root = <<>> /\ matched_list = <<>> /\ stack = <<>> /\ lpc = "idle"

SInit == log = <<>> /\ exited = None /\ raised = None

(***************************************************************************)
(* process_regression_list                                                 *)
(***************************************************************************)
\* what a file that yaml.safe_load cannot parse holds
MalformedDoc == <<[yaml_error |-> TRUE]>>

\* open(yaml_file, "r") finds the file
Opens(yaml_file) == yaml_file \in DOMAIN fs

\* read_yaml(yaml_file) returns: the file opens and yaml.safe_load parses it
Loads(yaml_file) == Opens(yaml_file) /\ fs[yaml_file] # MalformedDoc

\* read_yaml(yaml_file)
read_yaml(yaml_file) == fs[yaml_file]

\* a call: yaml_data = read_yaml(testlist), the for loop before its first entry
NewFrame(path) == [testlist |-> path, yaml_data |-> read_yaml(path), idx |-> 1]

Top == stack[Len(stack)]

Entry == Top.yaml_data[Top.idx]

\* the frame of the current call with its loop moved to the next entry
Advance(fr) == [fr EXCEPT !.idx = @ + 1]

\* the import is put aside until the caller's loop has ended
PushCallDeferred(stk, path) ==
  SubSeq(stk, 1, Len(stk) - 1) \o <<NewFrame(path), Advance(stk[Len(stk)])>>

\* a cycle guard: a list that is being resolved is not imported again
PushCallGuarded(stk, path) ==
  IF \E f \in 1..Len(stk) : stk[f].testlist = path
  THEN SubSeq(stk, 1, Len(stk) - 1) \o <<Advance(stk[Len(stk)])>>
  ELSE SubSeq(stk, 1, Len(stk) - 1) \o <<Advance(stk[Len(stk)]), NewFrame(path)>>

\* the stack during a recursive call on `path` made from the current entry:
\* the caller resumes at its next entry when the callee returns
PushCall(stk, path) ==
  SubSeq(stk, 1, Len(stk) - 1) \o <<Advance(stk[Len(stk)]), NewFrame(path)>>

\* "all" among the tokens taken for the wildcard
MatchesAllToken(entry, sel) ==
  InList(entry.test, Split(sel)) \/ InList(sAll, Split(sel))

\* (entry['test'] in mult_test) or (test == "all")
Matches(entry, sel) == InList(entry.test, Split(sel)) \/ sel = sAll

\* the override applied without looking at the entry's own iterations
OverrideUnguarded(entry, iters) ==
  IF iters > 0 THEN [entry EXCEPT !.iterations = iters] ELSE entry

\* the override never applied
OverrideDropped(entry, iters) == entry

\* if (iterations > 0 and entry['iterations'] > 0): entry['iterations'] = iterations
Override(entry, iters) ==
  IF iters > 0 /\ entry.iterations > 0
  THEN [entry EXCEPT !.iterations = iters]
  ELSE entry

\* entries with zero iterations appended too
Append1NonNegative(list, entry) ==
  IF entry.iterations >= 0 THEN Append(list, entry) ELSE list

\* the entry put at the front
Append1Front(list, entry) ==
  IF entry.iterations > 0 THEN <<entry>> \o list ELSE list

\* if entry['iterations'] > 0: matched_list.append(entry)
Append1(list, entry) ==
  IF entry.iterations > 0 THEN Append(list, entry) ELSE list

LInit ==
  /\ \E d \in RootDocs : fs = Files(d)
  /\ testlist = RootPath
  /\ test \in Selections
  /\ iterations \in Overrides
  /\ riscv_dv_root = RootDir
  /\ matched_list = <<>>
  /\ stack = <<>>
  /\ lpc = "start"
  /\ RIdle /\ PIdle /\ SInit

\* the caller's call: lines 185-187
Enter ==
  /\ lpc = "start"
  /\ Loads(testlist)
  /\ stack' = <<NewFrame(testlist)>>
  /\ lpc' = "run"
  /\ UNCHANGED <<fs, testlist, test, iterations, riscv_dv_root, matched_list>>
  /\ UNCHANGED <<rvars, pvars, svars>>

\* lines 189-191: the entry is an import node
ImportEntry ==
  /\ lpc = "run"
  /\ Top.idx <= Len(Top.yaml_data)
  /\ "import" \in DOMAIN Entry
  /\ Len(stack) < RecursionLimit
  /\ LET sub_list == ReSub(riscv_dv_root, Entry.import)
     IN  /\ Loads(sub_list)
         /\ stack' = PushCall(stack, sub_list)
  /\ UNCHANGED <<fs, testlist, test, iterations, riscv_dv_root, matched_list, lpc>>
  /\ UNCHANGED <<rvars, pvars, svars>>

\* lines 192-199: the entry is a test node
TestEntry ==
  /\ lpc = "run"
  /\ Top.idx <= Len(Top.yaml_data)
  /\ "import" \notin DOMAIN Entry
  /\ LET e == IF Matches(Entry, test) THEN Override(Entry, iterations) ELSE Entry
     IN  /\ matched_list' =
              IF Matches(Entry, test) THEN Append1(matched_list, e) ELSE matched_list
         /\ stack' = [stack EXCEPT ![Len(stack)] =
                        Advance([@ EXCEPT !.yaml_data[Top.idx] = e])]
  /\ UNCHANGED <<fs, testlist, test, iterations, riscv_dv_root, lpc>>
  /\ UNCHANGED <<rvars, pvars, svars>>

\* the for loop of the innermost call is exhausted: the call returns
Return ==
  /\ lpc = "run"
  /\ Top.idx > Len(Top.yaml_data)
  /\ stack' = SubSeq(stack, 1, Len(stack) - 1)
  /\ lpc' = IF Len(stack) = 1 THEN "done" ELSE "run"
  /\ UNCHANGED <<fs, testlist, test, iterations, riscv_dv_root, matched_list>>
  /\ UNCHANGED <<rvars, pvars, svars>>

LNext == Enter \/ ImportEntry \/ TestEntry \/ Return

SpecList == LInit /\ [][LNext]_vars

(***************************************************************************)
(* Commands and child processes.                                           *)
(*                                                                         *)
(* A command is what the shell makes of its text: how long it runs, what   *)
(* it writes and the code it exits with.  Popen.returncode is None until   *)
(* communicate() has reaped the child; kill() sends SIGKILL and does not   *)
(* reap, so the returncode of a child killed after a timeout is None when  *)
(* it is read.                                                             *)
(***************************************************************************)
ExitCodes == {0, 2, -15}

Timeouts == {1, 2}

\* how long a command runs: within every timeout, within the longer one, or
\* beyond the shorter one
Durations == {0, 1, 2}

CmdText(k) == <<"cmd", k>>

OutText(k) == <<"out", k>>

\* the empty string
EmptyString == <<>>

\* the commands run_cmd is called with
RCommands ==
  {[text |-> CmdText(1), dur |-> d, out |-> o, code |-> c] :
     d \in Durations, o \in {EmptyString, OutText(1)}, c \in ExitCodes}

\* the batches run_parallel_cmd is called with: the k-th command writes OutText(k)
Batches ==
  UNION {
    {[k \in 1..n |->
        [text |-> CmdText(k), dur |-> d[k], out |-> OutText(k), code |-> c[k]]] :
       d \in [1..n -> Durations], c \in [1..n -> ExitCodes]} :
    n \in 0..MaxCmds}

\* subprocess.Popen(...): a running child
Popen == [state |-> "running", returncode |-> None]

\* communicate() has returned: the child has exited and is reaped
Reaped(command) == [state |-> "exited", returncode |-> Some(command.code)]

\* Popen.kill()
Kill(p) == [p EXCEPT !.state = "killed"]

\* the truth value of an object that is None or an integer
Truthy(v) == v # None /\ Val(v) # 0

\* the sign test the wrong way round
ErrorPathNegative(rc, check) == Truthy(rc) /\ check /\ Val(rc) < 0

\* zero taken for an error
ErrorPathZero(rc, check) == rc # None /\ check /\ Val(rc) >= 0

\* check_return_code not looked at
ErrorPathUnchecked(rc, check) == Truthy(rc) /\ Val(rc) > 0

\* rc and check_return_code and rc > 0
ErrorPath(rc, check) == Truthy(rc) /\ check /\ Val(rc) > 0

\* if exit_on_error, inverted
ExitsOnErrorInverted(flag) == flag = 0

\* if exit_on_error
ExitsOnError(flag) == flag # 0

\* the partial output kept on a timeout
TimeoutOutputKept(command) == command.out

\* output = "" in the TimeoutExpired handler of run_cmd
TimeoutOutput(command) == EmptyString

\* a logging call
Logged(l, level, msg) == Append(l, [level |-> level, msg |-> msg])

Max(a, b) == IF a >= b THEN a ELSE b

(***************************************************************************)
(* run_cmd                                                                 *)
(***************************************************************************)
\* the exception Popen raises when the shell cannot be started
LaunchException == "OSError"

\* except subprocess.CalledProcessError
HandlerCatches(exc) == exc = "CalledProcessError"

RInit ==
  /\ r_cmd \in RCommands
  /\ r_timeout_s \in Timeouts
  /\ r_exit_on_error \in {0, 1}
  /\ r_check_return_code \in BOOLEAN
  /\ shell_ok \in BOOLEAN
  /\ ps = Unbound
  /\ r_output = Unbound
  /\ retval = NoReturn
  /\ rpc = "start"
  /\ LIdle /\ PIdle /\ SInit

\* lines 109-119
RPopen ==
  /\ rpc = "start"
  /\ IF shell_ok
     THEN /\ ps' = Popen
          /\ log' = Logged(log, "debug", <<r_cmd.text>>)
          /\ rpc' = "communicate"
          /\ UNCHANGED <<exited, raised>>
     ELSE IF HandlerCatches(LaunchException)
     THEN \* logging.error(ps.communicate()[0]): ps is not assigned
          /\ log' = Logged(log, "debug", <<r_cmd.text>>)
          /\ raised' = Some("UnboundLocalError")
          /\ rpc' = "raised"
          /\ UNCHANGED <<ps, exited>>
     ELSE /\ log' = Logged(log, "debug", <<r_cmd.text>>)
          /\ raised' = Some(LaunchException)
          /\ rpc' = "raised"
          /\ UNCHANGED <<ps, exited>>
  /\ UNCHANGED <<r_cmd, r_timeout_s, r_exit_on_error, r_check_return_code,
                 shell_ok, r_output, retval>>
  /\ UNCHANGED <<lvars, pvars>>

\* lines 120-121: the command ends within the timeout
RCommunicate ==
  /\ rpc = "communicate"
  /\ r_cmd.dur <= r_timeout_s
  /\ r_output' = r_cmd.out
  /\ ps' = Reaped(r_cmd)
  /\ rpc' = "check"
  /\ UNCHANGED <<r_cmd, r_timeout_s, r_exit_on_error, r_check_return_code,
                 shell_ok, retval>>
  /\ UNCHANGED <<lvars, pvars, svars>>

\* lines 120-125: subprocess.TimeoutExpired
RTimeoutExpired ==
  /\ rpc = "communicate"
  /\ r_cmd.dur > r_timeout_s
  /\ log' = Logged(log, "error", <<"Timeout", r_timeout_s, r_cmd.text>>)
  /\ r_output' = TimeoutOutput(r_cmd)
  /\ ps' = Kill(ps)
  /\ rpc' = "check"
  /\ UNCHANGED <<r_cmd, r_timeout_s, r_exit_on_error, r_check_return_code,
                 shell_ok, retval, exited, raised>>
  /\ UNCHANGED <<lvars, pvars>>

\* lines 126-133
RCheck ==
  /\ rpc = "check"
  /\ LET rc == ps.returncode
         err == ErrorPath(rc, r_check_return_code)
         l1 == IF err
               THEN Logged(Logged(log, "info", r_output), "error",
                           <<"ERROR return code", r_check_return_code, rc, r_cmd.text>>)
               ELSE log
     IN  IF err /\ ExitsOnError(r_exit_on_error)
         THEN /\ log' = l1
              /\ exited' = Some(RET_FAIL)
              /\ rpc' = "exited"
              /\ UNCHANGED retval
         ELSE /\ log' = Logged(l1, "debug", r_output)
              /\ retval' = r_output
              /\ rpc' = "returned"
              /\ UNCHANGED exited
  /\ UNCHANGED <<r_cmd, r_timeout_s, r_exit_on_error, r_check_return_code,
                 shell_ok, ps, r_output, raised>>
  /\ UNCHANGED <<lvars, pvars>>

RNext == RPopen \/ RCommunicate \/ RTimeoutExpired \/ RCheck

SpecCmd == RInit /\ [][RNext]_vars

(***************************************************************************)
(* run_parallel_cmd                                                        *)
(***************************************************************************)
PInit ==
  /\ cmd_list \in Batches
  /\ timeout_s \in Timeouts
  /\ exit_on_error \in {0, 1}
  /\ check_return_code \in BOOLEAN
  /\ children = <<>>
  /\ cmd = Unbound
  /\ i = 0
  /\ output = Unbound
  /\ now = 0
  /\ stty = 0
  /\ ppc = "launch"
  /\ LIdle /\ RIdle /\ SInit

\* lines 146-153: one pass of the launch loop
PLaunch ==
  /\ ppc = "launch"
  /\ Len(children) < Len(cmd_list)
  /\ cmd' = cmd_list[Len(children) + 1]
  /\ children' = Append(children, Popen)
  /\ UNCHANGED <<cmd_list, timeout_s, exit_on_error, check_return_code, i,
                 output, now, stty, ppc>>
  /\ UNCHANGED <<lvars, rvars, svars>>

\* the first wait begun as soon as one command is launched
PLaunchedEarly ==
  /\ ppc = "launch"
  /\ Len(children) >= 1
  /\ ppc' = "wait"
  /\ UNCHANGED <<cmd_list, timeout_s, exit_on_error, check_return_code, children,
                 cmd, i, output, now, stty>>
  /\ UNCHANGED <<lvars, rvars, svars>>

\* the launch loop has ended: line 154
PLaunched ==
  /\ ppc = "launch"
  /\ Len(children) = Len(cmd_list)
  /\ ppc' = "wait"
  /\ UNCHANGED <<cmd_list, timeout_s, exit_on_error, check_return_code, children,
                 cmd, i, output, now, stty>>
  /\ UNCHANGED <<lvars, rvars, svars>>

\* the two logging calls at the head of the wait loop: lines 155-156
WaitLogged(l) ==
  Logged(Logged(l, "info", <<"Command progress", i, Len(children)>>),
         "debug", <<"Waiting for command", cmd_list[i + 1].text>>)

\* the timeout counted from the launch of the batch
WaitDeadlineFromLaunch(start, t) == t

\* communicate(timeout = timeout_s) called at time `start` gives up at this time
WaitDeadline(start, t) == start + t

\* a command that has timed out is waited on again
NextIndexRetry(n) == IF children[n + 1].state = "killed" THEN n ELSE n + 1

\* for i in range(len(children)): the index after n
NextIndex(n) == n + 1

\* lines 155-158: command i ends within timeout_s of the start of its wait
PCommunicate ==
  /\ ppc = "wait"
  /\ i < Len(children)
  /\ cmd_list[i + 1].dur <= WaitDeadline(now, timeout_s)
  /\ log' = WaitLogged(log)
  /\ output' = cmd_list[i + 1].out
  /\ children' = [children EXCEPT ![i + 1] = Reaped(cmd_list[i + 1])]
  /\ now' = Max(now, cmd_list[i + 1].dur)
  /\ ppc' = "check"
  /\ UNCHANGED <<cmd_list, timeout_s, exit_on_error, check_return_code, cmd, i,
                 stty, exited, raised>>
  /\ UNCHANGED <<lvars, rvars>>

\* lines 155-161: subprocess.TimeoutExpired
PTimeoutExpired ==
  /\ ppc = "wait"
  /\ i < Len(children)
  /\ cmd_list[i + 1].dur > WaitDeadline(now, timeout_s)
  /\ log' = Logged(WaitLogged(log), "error", <<"Timeout", timeout_s, cmd.text>>)
  /\ children' = [children EXCEPT ![i + 1] = Kill(@)]
  /\ now' = now + timeout_s
  /\ ppc' = "check"
  /\ UNCHANGED <<cmd_list, timeout_s, exit_on_error, check_return_code, cmd, i,
                 output, stty, exited, raised>>
  /\ UNCHANGED <<lvars, rvars>>

\* lines 162-167
PCheck ==
  /\ ppc = "check"
  /\ LET rc == children[i + 1].returncode
         err == ErrorPath(rc, check_return_code)
     IN  IF ~err
         THEN /\ ppc' = "restore"
              /\ UNCHANGED <<log, exited, raised>>
         ELSE IF output = Unbound
         THEN \* logging.info(output)
              /\ raised' = Some("UnboundLocalError")
              /\ ppc' = "raised"
              /\ UNCHANGED <<log, exited>>
         ELSE /\ log' = Logged(Logged(log, "info", output), "error",
                               <<"ERROR return code", rc, cmd.text>>)
              /\ IF ExitsOnError(exit_on_error)
                 THEN exited' = Some(RET_FAIL) /\ ppc' = "exited"
                 ELSE exited' = exited /\ ppc' = "restore"
              /\ UNCHANGED raised
  /\ UNCHANGED <<cmd_list, timeout_s, exit_on_error, check_return_code, children,
                 cmd, i, output, now, stty>>
  /\ UNCHANGED <<lvars, rvars>>

\* lines 168-170, and the loop goes to the next command
PRestore ==
  /\ ppc = "restore"
  /\ stty' = stty + 1
  /\ IF output = Unbound
     THEN \* logging.debug(output)
          /\ raised' = Some("UnboundLocalError")
          /\ ppc' = "raised"
          /\ UNCHANGED <<log, i>>
     ELSE /\ log' = Logged(log, "debug", output)
          /\ i' = NextIndex(i)
          /\ ppc' = "wait"
          /\ UNCHANGED raised
  /\ UNCHANGED <<cmd_list, timeout_s, exit_on_error, check_return_code, children,
                 cmd, output, now, exited>>
  /\ UNCHANGED <<lvars, rvars>>

\* the wait loop has ended: the function returns
PReturn ==
  /\ ppc = "wait"
  /\ i = Len(children)
  /\ ppc' = "done"
  /\ UNCHANGED <<cmd_list, timeout_s, exit_on_error, check_return_code, children,
                 cmd, i, output, now, stty>>
  /\ UNCHANGED <<lvars, rvars, svars>>

PNext ==
  PLaunch \/ PLaunched \/ PCommunicate \/ PTimeoutExpired \/ PCheck \/ PRestore
  \/ PReturn

SpecPar == PInit /\ [][PNext]_vars

Init == LInit \/ RInit \/ PInit

Next == LNext \/ RNext \/ PNext

Spec == Init /\ [][Next]_vars

(***************************************************************************)
(* process_regression_list on documents that fail to load or import each   *)
(* other in a cycle, and with an accumulator that is not empty at the call *)
(***************************************************************************)
LoopPath == <<"/dv", "/loop.yaml">>
BadPath == <<"/dv", "/bad.yaml">>
GonePath == <<"/dv", "/gone.yaml">>

\* a list that imports the root list
LoopDoc ==
  <<TestNode(sZ, 1, <<"loop", 1>>), ImportNode(<<Placeholder, "/root.yaml">>)>>

TreeNodes ==
  {TestNode(sX, 2, ""),
   ImportNode(<<Placeholder, "/leaf.yaml">>),
   ImportNode(<<Placeholder, "/root.yaml">>),
   ImportNode(<<Placeholder, "/loop.yaml">>),
   ImportNode(<<Placeholder, "/bad.yaml">>),
   ImportNode(<<Placeholder, "/gone.yaml">>)}

TreeRootDocs ==
  {Tagged(d) : d \in UNION {[1..n -> TreeNodes] : n \in 0..MaxDocLen}}

\* the documents on disk: GonePath does not exist, BadPath does not parse
TreeFiles(rootDoc) ==
  Files(rootDoc) @@ (LoopPath :> LoopDoc) @@ (BadPath :> MalformedDoc)

\* the same without the root list
RootGone ==
  [p \in {LeafPath, BadPath} |-> IF p = LeafPath THEN LeafDoc ELSE MalformedDoc]

TreeSelections == {sAll, sZ}

TreeOverrides == {0, 3}

\* an entry the caller has put into the accumulator before the call
PreEntry == TestNode(sY, 5, <<"pre", 1>>)

TInit ==
  /\ \/ \E d \in TreeRootDocs : fs = TreeFiles(d)
     \/ fs = TreeFiles(MalformedDoc)
     \/ fs = RootGone
  /\ testlist = RootPath
  /\ test \in TreeSelections
  /\ iterations \in TreeOverrides
  /\ riscv_dv_root = RootDir
  /\ matched_list \in {<<>>, <<PreEntry>>}
  /\ stack = <<>>
  /\ lpc = "start"
  /\ RIdle /\ PIdle /\ SInit

\* sys.exit on a YAMLError, with the sentinel that is not used
YamlErrorExitFatal == Some(RET_FATAL)

\* sys.exit(RET_FAIL) in read_yaml
YamlErrorExit == Some(RET_FAIL)

\* read_yaml(path) does not return: open() raises FileNotFoundError, which
\* nothing catches, or yaml.safe_load raises YAMLError, which is logged and
\* ends the process
LoadFails(path) ==
  IF ~Opens(path)
  THEN /\ raised' = Some("FileNotFoundError")
       /\ lpc' = "raised"
       /\ UNCHANGED <<log, exited>>
  ELSE /\ log' = Logged(log, "error", <<"YAMLError", path>>)
       /\ exited' = YamlErrorExit
       /\ lpc' = "exited"
       /\ UNCHANGED raised

\* lines 185-186 of the caller's call, read_yaml failing
EnterFails ==
  /\ lpc = "start"
  /\ ~Loads(testlist)
  /\ LoadFails(testlist)
  /\ UNCHANGED <<fs, testlist, test, iterations, riscv_dv_root, matched_list, stack>>
  /\ UNCHANGED <<rvars, pvars>>

\* lines 189-191 and 185-186 of the recursive call, read_yaml failing
ImportFails ==
  /\ lpc = "run"
  /\ Top.idx <= Len(Top.yaml_data)
  /\ "import" \in DOMAIN Entry
  /\ Len(stack) < RecursionLimit
  /\ LET sub_list == ReSub(riscv_dv_root, Entry.import)
     IN  ~Loads(sub_list) /\ LoadFails(sub_list)
  /\ UNCHANGED <<fs, testlist, test, iterations, riscv_dv_root, matched_list, stack>>
  /\ UNCHANGED <<rvars, pvars>>

\* line 191 when the calls are nested as deep as the interpreter allows:
\* RecursionError, which nothing catches
ImportOverflow ==
  /\ lpc = "run"
  /\ Top.idx <= Len(Top.yaml_data)
  /\ "import" \in DOMAIN Entry
  /\ Len(stack) >= RecursionLimit
  /\ raised' = Some("RecursionError")
  /\ lpc' = "raised"
  /\ UNCHANGED <<fs, testlist, test, iterations, riscv_dv_root, matched_list, stack>>
  /\ UNCHANGED <<rvars, pvars, log, exited>>

TNext == LNext \/ EnterFails \/ ImportFails \/ ImportOverflow

\* the resolver runs without waiting for anything: it takes its next step
SpecTree == TInit /\ [][TNext]_vars /\ WF_vars(TNext)

\* both executors
SpecExec == (RInit \/ PInit) /\ [][RNext \/ PNext]_vars

(***************************************************************************)
(* What the resolver is expected to produce, stated on the documents.      *)
(***************************************************************************)
IsImport(node) == "import" \in DOMAIN node

RootDoc == fs[RootPath]

NoImports(doc) == \A k \in 1..Len(doc) : ~IsImport(doc[k])

\* the iteration count of an entry after the override step
EffectiveIterations(node) ==
  IF iterations > 0 /\ node.iterations > 0 THEN iterations ELSE node.iterations

WithEffective(node) == [node EXCEPT !.iterations = EffectiveIterations(node)]

\* name is one of the comma-separated tokens of sel
IsToken(name, sel) ==
  /\ \A k \in 1..Len(name) : name[k] # Comma
  /\ \E a \in 1..(Len(sel) + 1) :
       /\ a = 1 \/ sel[a - 1] = Comma
       /\ a + Len(name) - 1 <= Len(sel)
       /\ SubSeq(sel, a, a + Len(name) - 1) = name
       /\ a + Len(name) > Len(sel) \/ sel[a + Len(name)] = Comma

Selected(node) == IsToken(node.test, test) \/ test = sAll

\* the import path with the root substituted, by cases on its first token
Target(node) ==
  IF node.import[1] = Placeholder
  THEN riscv_dv_root \o Tail(node.import)
  ELSE node.import

\* the test nodes of a document in traversal order, every import node
\* replaced at its position by the nodes of the imported document
RECURSIVE Traversal(_)
Traversal(path) ==
  LET doc == fs[path]
      F[k \in 0..Len(doc)] ==
        IF k = 0 THEN <<>>
        ELSE F[k - 1] \o (IF IsImport(doc[k])
                          THEN Traversal(Target(doc[k]))
                          ELSE <<doc[k]>>)
  IN  F[Len(doc)]

Keep(node) == Selected(node) /\ EffectiveIterations(node) > 0

MapEffective(s) == [k \in 1..Len(s) |-> WithEffective(s[k])]

Resolution(path) == MapEffective(SelectSeq(Traversal(path), Keep))

Names(s) == [k \in 1..Len(s) |-> s[k].test]

Descriptions(s) == [k \in 1..Len(s) |-> s[k].description]

\* the declared iterations of the node with this description
DeclaredIterations(descr) ==
  LET all == Traversal(RootPath) \o Traversal(MidPath)
      k == CHOOSE k \in 1..Len(all) : all[k].description = descr
  IN  all[k].iterations

\* a is b with some elements left out
RECURSIVE IsSubsequence(_, _)
IsSubsequence(a, b) ==
  IF a = <<>> THEN TRUE
  ELSE IF b = <<>> THEN FALSE
  ELSE IF Head(a) = Head(b) THEN IsSubsequence(Tail(a), Tail(b))
  ELSE IsSubsequence(a, Tail(b))

(***************************************************************************)
(* C2: for a list document without import nodes, resolving "all" into an   *)
(* empty accumulator leaves exactly the entries whose iteration count      *)
(* after the override step is positive, once per occurrence, in document   *)
(* order.                                                                  *)
(***************************************************************************)
C2_AllWithoutImports ==
  (lpc = "done" /\ test = sAll /\ NoImports(RootDoc)) =>
    matched_list =
      MapEffective(SelectSeq(RootDoc, LAMBDA n : EffectiveIterations(n) > 0))

C2_Witness ==
  /\ lpc = "done" /\ test = sAll /\ NoImports(RootDoc)
  /\ Len(RootDoc) = 3
  /\ Len(matched_list) = 2
  /\ RootDoc[2].iterations = 0
  /\ iterations = 3

(***************************************************************************)
(* C3: the accumulator after resolution is the document-order sequence of  *)
(* the matching entries with every import node replaced, at its position,  *)
(* by the resolution of the imported document, at any nesting depth; root  *)
(* = [x, import(leaf), y] with leaf = [z] and selection "all" gives        *)
(* [x, z, y].                                                              *)
(***************************************************************************)
C3_DepthFirstInPlace ==
  /\ lpc = "done" => matched_list = Resolution(RootPath)
  /\ ( /\ lpc = "done" /\ test = sAll /\ Len(RootDoc) = 3
       /\ ~IsImport(RootDoc[1]) /\ RootDoc[1].test = sX /\ RootDoc[1].iterations > 0
       /\ IsImport(RootDoc[2]) /\ Target(RootDoc[2]) = LeafPath
       /\ ~IsImport(RootDoc[3]) /\ RootDoc[3].test = sY /\ RootDoc[3].iterations > 0 )
     => Names(matched_list) = <<sX, sZ, sY>>

\* two levels of import: root = [x, import(mid), y], mid imports deep
C3_Witness ==
  /\ lpc = "done" /\ test = sAll /\ iterations = 0
  /\ Descriptions(matched_list) =
       << <<"root", 1>>, <<"mid", 1>>, <<"deep", 1>>, <<"mid", 4>>, <<"root", 3>> >>

(***************************************************************************)
(* C4: an entry declared with iterations <= 0 is never in the accumulator  *)
(* and its iterations are never replaced by the override, whatever the     *)
(* override and the selection.                                             *)
(***************************************************************************)
C4_DisabledNeverResolved ==
  /\ \A j \in 1..Len(matched_list) :
       DeclaredIterations(matched_list[j].description) > 0
  /\ \A f \in 1..Len(stack) : \A k \in 1..Len(stack[f].yaml_data) :
       LET declared == fs[stack[f].testlist][k]
       IN  (~IsImport(declared) /\ declared.iterations <= 0) =>
             stack[f].yaml_data[k] = declared

\* a disabled entry that the selection names has been passed with a
\* positive override
C4_Witness ==
  /\ lpc = "run" /\ Len(stack) = 1 /\ Top.idx = 2
  /\ test = sX /\ iterations = 3
  /\ ~IsImport(RootDoc[1]) /\ RootDoc[1].test = sX /\ RootDoc[1].iterations = 0
  /\ matched_list = <<>>

(***************************************************************************)
(* C5: an entry in the accumulator carries the override N when N > 0 and   *)
(* its declared iterations when the override is 0.                         *)
(***************************************************************************)
C5_OverrideApplied ==
  \A j \in 1..Len(matched_list) :
    /\ iterations > 0 => matched_list[j].iterations = iterations
    /\ iterations = 0 =>
         matched_list[j].iterations =
           DeclaredIterations(matched_list[j].description)

C5_Witness ==
  /\ lpc = "done" /\ iterations = 3
  /\ \E j \in 1..Len(matched_list) :
       /\ matched_list[j].iterations = 3
       /\ DeclaredIterations(matched_list[j].description) = 2

(***************************************************************************)
(* C6: a test node is in the accumulator only if its name is one of the    *)
(* comma-separated tokens of the selection or the selection is exactly     *)
(* "all"; "all,x" is no wildcard; for a list of names the output is in     *)
(* document order, not in the order of the names.                          *)
(***************************************************************************)
C6_MatchPolicy ==
  /\ \A j \in 1..Len(matched_list) :
       IsToken(matched_list[j].test, test) \/ test = sAll
  /\ test = Join(sAll, sX) =>
       \A j \in 1..Len(matched_list) : matched_list[j].test \in {sAll, sX}
  /\ lpc = "done" =>
       IsSubsequence(Descriptions(matched_list), Descriptions(Traversal(RootPath)))

\* selection "y,x" on a document listing x before y
C6_Witness ==
  /\ lpc = "done" /\ test = Join(sY, sX)
  /\ Names(matched_list) = <<sX, sY>>

(***************************************************************************)
(* What the executors are expected to do.                                  *)
(***************************************************************************)
RFinished == rpc \in {"returned", "exited", "raised"}

PFinished == ppc \in {"done", "exited", "raised"}

\* the wait on the k-th command (from 1) has returned a positive code
PositiveCode(k) ==
  children[k].state = "exited" /\ Val(children[k].returncode) > 0

\* the commands whose return code has been looked at (lines 162-167)
Checked == {k \in 1..Len(children) : k <= i \/ (k = i + 1 /\ ppc \in {"restore", "exited"})}

ErrorLogs ==
  {n \in 1..Len(log) : log[n].level = "error" /\ log[n].msg[1] = "ERROR return code"}

TimeoutLogs ==
  {n \in 1..Len(log) : log[n].level = "error" /\ log[n].msg[1] = "Timeout"}

(***************************************************************************)
(* C1: a timeout of one command of a batch, the first one included, never  *)
(* aborts run_parallel_cmd: the child is killed, the timeout is logged,    *)
(* the later commands are still waited on and the call returns normally.   *)
(***************************************************************************)
C1_TimeoutNeverAborts ==
  (\E k \in 1..Len(children) : children[k].state = "killed") =>
    /\ TimeoutLogs # {}
    /\ raised = None
    /\ (PFinished /\ exited = None) => (ppc = "done" /\ i = Len(cmd_list))

(***************************************************************************)
(* C7: run_cmd on a command that exits with a positive code, with          *)
(* check_return_code true, ends the process with RET_FAIL when             *)
(* exit_on_error is true and returns the captured output when it is false. *)
(***************************************************************************)
C7_PositiveCode ==
  (RFinished /\ shell_ok /\ r_cmd.dur <= r_timeout_s /\ r_cmd.code > 0
     /\ r_check_return_code) =>
    IF r_exit_on_error # 0
    THEN rpc = "exited" /\ exited = Some(RET_FAIL) /\ retval = NoReturn
    ELSE rpc = "returned" /\ exited = None /\ raised = None /\ retval = r_cmd.out

C7_Witness ==
  /\ rpc = "exited" /\ exited = Some(RET_FAIL)
  /\ ps.state = "exited" /\ ps.returncode = Some(2)
  /\ r_exit_on_error = 1 /\ r_check_return_code

(***************************************************************************)
(* C8: run_cmd on a command that does not end within timeout_s kills the   *)
(* child, returns the empty string and does not end the process, whatever  *)
(* exit_on_error is and whatever code the command would have exited with.  *)
(***************************************************************************)
C8_TimeoutNotFatal ==
  (RFinished /\ shell_ok /\ r_cmd.dur > r_timeout_s) =>
    /\ ps.state = "killed"
    /\ rpc = "returned" /\ retval = EmptyString
    /\ exited = None /\ raised = None

C8_Witness ==
  /\ rpc = "returned" /\ ps.state = "killed" /\ retval = EmptyString
  /\ r_exit_on_error = 1 /\ r_check_return_code
  /\ r_cmd.code = 2 /\ r_cmd.out # EmptyString

(***************************************************************************)
(* C9: run_cmd on a command that exits with code 0 within the timeout      *)
(* returns all of its output and does not end the process, whatever        *)
(* exit_on_error and check_return_code are.                                *)
(***************************************************************************)
C9_ZeroCode ==
  (RFinished /\ shell_ok /\ r_cmd.dur <= r_timeout_s /\ r_cmd.code = 0) =>
    /\ rpc = "returned" /\ retval = r_cmd.out
    /\ exited = None /\ raised = None

C9_Witness ==
  /\ rpc = "returned" /\ ps.state = "exited" /\ ps.returncode = Some(0)
  /\ retval = OutText(1)
  /\ r_exit_on_error = 1 /\ r_check_return_code

(***************************************************************************)
(* C10: in run_parallel_cmd with exit_on_error false a positive return     *)
(* code is logged as an error and the batch goes on: the remaining         *)
(* commands are waited on and the call returns; with exit_on_error true    *)
(* the first positive return code in wait order ends the process.          *)
(***************************************************************************)
C10_BatchErrorPolicy ==
  /\ exit_on_error = 0 => (exited = None /\ ppc # "exited")
  /\ check_return_code =>
       Cardinality(ErrorLogs) = Cardinality({k \in Checked : PositiveCode(k)})
  /\ (exit_on_error = 0 /\ check_return_code /\ \E k \in Checked : PositiveCode(k)) =>
       /\ raised = None
       /\ ppc # "done" => ENABLED PNext
       /\ ppc = "done" =>
            (i = Len(cmd_list) /\ \A k \in 1..Len(children) : children[k].state # "running")
  /\ exited # None =>
       /\ exited = Some(RET_FAIL) /\ exit_on_error # 0 /\ check_return_code
       /\ PositiveCode(i + 1)
       /\ \A k \in 1..i : ~PositiveCode(k)
  /\ (exit_on_error # 0 /\ check_return_code /\ \E k \in Checked : PositiveCode(k)) =>
       exited = Some(RET_FAIL)

\* the first of three commands fails, the batch is waited out
C10_Witness ==
  /\ ppc = "done" /\ exit_on_error = 0 /\ check_return_code
  /\ Len(cmd_list) = 3 /\ i = 3
  /\ PositiveCode(1)
  /\ children[2].state = "killed"
  /\ children[3].state = "exited"

(***************************************************************************)
(* What the resolver is expected to do when a load fails, on import        *)
(* cycles, and to the accumulator it is given.                             *)
(***************************************************************************)
\* the process has ended because a list could not be loaded
LoadFailed ==
  lpc = "exited" \/ (lpc = "raised" /\ raised = Some("FileNotFoundError"))

NotPre(e) == e.description # PreEntry.description

\* the entries resolved by this call
ResolvedEntries == SelectSeq(matched_list, NotPre)

\* the test nodes met by the traversal up to the first list that does not
\* load, and whether there is such a list
RECURSIVE Walk(_)
Walk(path) ==
  IF ~Loads(path)
  THEN [seq |-> <<>>, failed |-> TRUE]
  ELSE LET doc == fs[path]
           F[k \in 0..Len(doc)] ==
             IF k = 0 THEN [seq |-> <<>>, failed |-> FALSE]
             ELSE IF F[k - 1].failed THEN F[k - 1]
             ELSE IF IsImport(doc[k])
             THEN LET w == Walk(Target(doc[k]))
                  IN  [seq |-> F[k - 1].seq \o w.seq, failed |-> w.failed]
             ELSE [seq |-> Append(F[k - 1].seq, doc[k]), failed |-> FALSE]
       IN  F[Len(doc)]

\* the lists a list imports
Imports(path) ==
  IF Loads(path)
  THEN {Target(fs[path][k]) : k \in {n \in 1..Len(fs[path]) : IsImport(fs[path][n])}}
  ELSE {}

\* the lists reached from the lists in S by imports, S included
RECURSIVE Closure(_)
Closure(S) ==
  LET T == S \cup UNION {Imports(p) : p \in S}
  IN  IF T = S THEN S ELSE Closure(T)

\* a list reached from the root list imports itself, directly or not
Cyclic == \E p \in Closure({RootPath}) : p \in Closure(Imports(p))

AllLoad == \A p \in Closure({RootPath}) : Loads(p)

IsPrefix(a, b) == Len(a) <= Len(b) /\ SubSeq(b, 1, Len(a)) = a

(***************************************************************************)
(* C11 as claimed: when a list fails to load, the process ends and no      *)
(* entry resolved before the failure is left in the accumulator.           *)
(***************************************************************************)
C11_NoPartialResults ==
  LoadFailed => (lpc # "done" /\ ResolvedEntries = <<>>)

(***************************************************************************)
(* C11 as amended: when a list fails to load, the call does not return: a  *)
(* list that does not parse ends the process with sys.exit(RET_FAIL) after *)
(* an error is logged, a list that cannot be opened raises an exception    *)
(* that nothing catches; the entries resolved before the failure stay in   *)
(* the accumulator, and a call that returns has met no failure.            *)
(***************************************************************************)
C11_FailureKeepsResolved ==
  /\ LoadFailed =>
       /\ Walk(RootPath).failed
       /\ ResolvedEntries = MapEffective(SelectSeq(Walk(RootPath).seq, Keep))
  /\ exited # None =>
       /\ exited = Some(RET_FAIL) /\ lpc = "exited" /\ raised = None
       /\ log # <<>> /\ log[Len(log)].level = "error"
  /\ lpc = "done" => ~Walk(RootPath).failed

\* an imported list does not parse after two entries have been resolved
C11_Witness ==
  /\ lpc = "exited" /\ exited = Some(RET_FAIL)
  /\ Len(stack) = 1 /\ Top.idx = 3
  /\ Len(ResolvedEntries) = 2

(***************************************************************************)
(* C15: process_regression_list returns when the lists reached from the    *)
(* root load and import each other without a cycle; there is no cycle      *)
(* guard: when a list imports itself, directly or through other lists,     *)
(* the call never returns.                                                 *)
(***************************************************************************)
C15_ReturnsIffAcyclic ==
  /\ (~Cyclic /\ AllLoad) => <>(lpc = "done")
  /\ Cyclic => [](lpc # "done")

\* the recursion through loop.yaml has gone as deep as it can
C15_Witness ==
  /\ lpc = "raised" /\ raised = Some("RecursionError")
  /\ Len(stack) = RecursionLimit
  /\ Top.testlist = LoopPath

(***************************************************************************)
(* C20: process_regression_list only appends to the accumulator: at every  *)
(* step the entries that were in it stay, unchanged and at their           *)
(* positions, so what the caller passed in is a prefix of the result.      *)
(***************************************************************************)
C20_AppendOnly == [][IsPrefix(matched_list, matched_list')]_vars

C20_Witness ==
  /\ lpc = "done"
  /\ Len(matched_list) = 4
  /\ matched_list[1] = PreEntry
  /\ matched_list[2].description = <<"leaf", 1>>
  /\ matched_list[4].description = <<"root", 3>>

(***************************************************************************)
(* What the executors are expected to do: order, housekeeping, retries.    *)
(***************************************************************************)
\* the commands whose wait has begun and ended (by completion or timeout)
Waited ==
  {k \in 1..Len(children) :
     k <= i \/ (k = i + 1 /\ ppc \in {"check", "restore", "exited", "raised"})}

IsWaitingLog(e) == e.level = "debug" /\ e.msg[1] = "Waiting for command"

IsProgressLog(e) == e.level = "info" /\ e.msg[1] = "Command progress"

IsOutputLog(e) == e.level \in {"info", "debug"} /\ e.msg[1] = "out"

\* when the wait on the k-th command begins and ends, from the batch alone
RECURSIVE WaitStart(_), WaitEnd(_)
WaitStart(k) == IF k = 1 THEN 0 ELSE WaitEnd(k - 1)

WaitEnd(k) ==
  IF cmd_list[k].dur > WaitStart(k) + timeout_s
  THEN WaitStart(k) + timeout_s
  ELSE Max(WaitStart(k), cmd_list[k].dur)

\* the index (from 0) of the wait during which the n-th logging call was made
WaitIndexOf(n) ==
  LET p == CHOOSE m \in 1..n :
             /\ IsProgressLog(log[m])
             /\ \A q \in (m + 1)..n : ~IsProgressLog(log[q])
  IN  log[p].msg[2]

(***************************************************************************)
(* C12: every command of the batch is launched before the first wait       *)
(* begins, and the waits are made one after the other in submission order, *)
(* also when a later command has ended before an earlier one.              *)
(***************************************************************************)
C12_LaunchAllThenWaitInOrder ==
  /\ ppc = "launch" =>
       /\ i = 0 /\ log = <<>>
       /\ \A k \in 1..Len(children) : children[k].state = "running"
  /\ ppc # "launch" => Len(children) = Len(cmd_list)
  /\ \A k \in 1..Len(children) : (children[k].state # "running") <=> (k \in Waited)
  /\ LET w == SelectSeq(log, IsWaitingLog)
     IN  \A n \in 1..Len(w) : w[n].msg[2] = CmdText(n)

\* the second command ended at once, and is still not waited on while the
\* wait on the first has taken until time 2
C12_Witness ==
  /\ ppc = "check" /\ i = 0 /\ Len(cmd_list) = 3
  /\ cmd_list[1].dur = 2 /\ cmd_list[2].dur = 0 /\ now = 2
  /\ children[1].state = "exited"
  /\ children[2].state = "running"

(***************************************************************************)
(* C13: "stty sane" is run after every wait, once per waited command,      *)
(* whether the wait ended in success, in a positive return code (for       *)
(* either value of exit_on_error) or in a timeout.                         *)
(***************************************************************************)
C13_SttyAfterEveryWait ==
  ppc \in {"wait", "done", "exited", "raised"} => stty = Cardinality(Waited)

(***************************************************************************)
(* C14: in run_cmd and in run_parallel_cmd the error is logged, and the    *)
(* process ended when exit_on_error is set, if and only if                 *)
(* check_return_code is true and the return code is strictly positive.     *)
(***************************************************************************)
C14_ErrorPathIffPositive ==
  /\ rpc \in {"returned", "exited"} =>
       LET positive == /\ r_check_return_code
                       /\ ps.returncode # None
                       /\ Val(ps.returncode) > 0
       IN  /\ (ErrorLogs # {}) <=> positive
           /\ (exited # None) <=> (positive /\ r_exit_on_error # 0)
  /\ ppc # "idle" =>
       LET positive == {k \in Checked : check_return_code /\ PositiveCode(k)}
       IN  /\ Cardinality(ErrorLogs) = Cardinality(positive)
           /\ (exited # None) <=> (positive # {} /\ exit_on_error # 0)

\* a command ended by a signal, with the check and exit_on_error on
C14_Witness ==
  /\ rpc = "returned" /\ ps.returncode = Some(-15)
  /\ r_check_return_code /\ r_exit_on_error = 1
  /\ ErrorLogs = {} /\ exited = None

(***************************************************************************)
(* C16: the timeout of a command of the batch is counted from the start    *)
(* of its own wait: it is killed only if it still runs timeout_s after     *)
(* that, so it may run for longer than timeout_s after the launch.         *)
(***************************************************************************)
C16_TimeoutFromWaitStart ==
  /\ \A k \in Waited :
       (children[k].state = "killed") <=>
         (cmd_list[k].dur > WaitStart(k) + timeout_s)
  /\ (ppc = "wait" /\ i < Len(children)) => now = WaitStart(i + 1)

\* the second command ran for longer than timeout_s and was not killed
C16_Witness ==
  /\ Len(cmd_list) >= 2 /\ 2 \in Waited
  /\ cmd_list[2].dur > timeout_s
  /\ children[2].state = "exited"
  /\ WaitStart(2) > 0

(***************************************************************************)
(* C17: no retries: within a call every command is launched once and       *)
(* waited on at most once; after a timeout or an error it is not launched  *)
(* or waited on again.                                                     *)
(***************************************************************************)
C17_NoRetries ==
  /\ [](ppc # "idle" =>
          /\ Len(children) <= Len(cmd_list)
          /\ \A k \in 1..Len(cmd_list) :
               Cardinality({n \in 1..Len(log) :
                              IsWaitingLog(log[n]) /\ log[n].msg[2] = CmdText(k)}) <= 1
          /\ PFinished /\ raised = None /\ exited = None =>
               Len(children) = Len(cmd_list))
  /\ [][/\ IsPrefix(children, children')
           \/ \E k \in 1..Len(children) :
                /\ children[k].state = "running"
                /\ children' = [children EXCEPT ![k] = children'[k]]
        /\ Len(children') <= Len(children) + 1
        /\ rpc \in {"check", "returned", "exited"} => ps' = ps
        /\ rpc = "communicate" => (ps.state = "running" /\ ps'.state # "running")
       ]_vars

\* a batch waited out after an error and a timeout
C17_Witness ==
  /\ ppc = "done" /\ Len(cmd_list) = 3 /\ check_return_code
  /\ PositiveCode(1)
  /\ children[2].state = "killed"
  /\ children[3].state = "exited"
  /\ Len(SelectSeq(log, IsWaitingLog)) = 3

(***************************************************************************)
(* C18: if the shell cannot be launched, run_cmd ends the process through  *)
(* its launch-failure handler: an error is logged, the process exits with  *)
(* the failure code and no output is returned.                             *)
(***************************************************************************)
C18_LaunchFailureFatal ==
  (RFinished /\ ~shell_ok) =>
    /\ exited = Some(RET_FAIL)
    /\ \E n \in 1..Len(log) : log[n].level = "error"
    /\ retval = NoReturn

(***************************************************************************)
(* C19: what run_parallel_cmd logs while it handles the wait on command i  *)
(* is about command i: the timeout and error messages name cmd_list[i] and *)
(* the output logged is the output of command i.                           *)
(***************************************************************************)
C19_LogsAboutCurrentCommand ==
  \A n \in 1..Len(log) :
    /\ log[n].level = "error" => log[n].msg[3] = CmdText(WaitIndexOf(n) + 1)
    /\ IsOutputLog(log[n]) => log[n].msg = OutText(WaitIndexOf(n) + 1)
=============================================================================
